---- MODULE Spec2Model ----
(***************************************************************************)
(* Model of vimgo-playground: the key decoder (readKey / readKeyBlocking), *)
(* the key reporter's read loop, and the editor's decoder goroutine and    *)
(* render loop joined by a one-slot channel.                               *)
(***************************************************************************)
EXTENDS Integers, Sequences, FiniteSets, TLC

VARIABLES
    stream,          \* what os.Stdin delivers: bytes and read failures, then end of stream
    pos,             \* index of the next element of stream the bufio reader hands out
    calls,           \* history: one record per readKey/readKeyBlocking call
    pc0,             \* key reporter main: "off", "loop" or "done"
    stdout0,         \* key reporter main: the lines printed, oldest first
    decoderPc,       \* editor's decoder goroutine: "off", "read", "send" or "done"
    keyEvent,        \* the goroutine's keyEvent, decoded and not yet offered
    keyChannel,      \* the buffer of keyChannel, oldest first
    chanClosed,      \* close(keyChannel) has run
    mainPc,          \* editor main: "off", "frame", "select", "returned" or "fatal"
    recvOk,          \* ok of main's last receive from keyChannel
    terminalColumns, \* main's terminalColumns of the current iteration
    terminalRows,    \* main's terminalRows of the current iteration
    cursorIndexX,
    cursorIndexY,
    frames,          \* history: number of frames written by refreshTerminal
    accepted,        \* history: indexes in calls of the events the channel took
    dropped,         \* history: indexes in calls of the events dropped
    received,        \* history: the events main received, oldest first
    cursorMove,      \* <<row, column>> of the cursor move in the last frame written
    cursorBefore,    \* history: <<x, y>> of the cursor before the last key event
    editorLines,     \* the in-memory buffer: a sequence of lines, each a byte string
    frameBuf,        \* the buffer refreshTerminal handed to its last os.Stdout.Write
    writes,          \* history: number of os.Stdout.Write calls of refreshTerminal
    termSize,        \* <<columns, rows>> of the terminal window at this moment
    tty,             \* attributes of each terminal device
    tty0,            \* history: the attributes when the program started
    outDev,          \* the device os.Stdout is open on
    oldState,        \* main's oldState, <<>> before term.MakeRaw has returned it
    deferred,        \* main's deferred calls, the last registered first
    restores,        \* history: number of term.Restore calls made
    rawEntered,      \* history: term.MakeRaw has succeeded
    configCalls,     \* terminalRawConfigure alone: history of its calls
    sizeQuery,       \* geometry resolver alone: what term.GetSize returns
    probeReply,      \* geometry resolver alone: what the probe's read returns
    geometry,        \* geometry resolver alone: what getTerminalSize returned
    probeSent,       \* geometry resolver alone: the codes getTerminalSize printed
    pcG,             \* geometry resolver alone: "off", "call" or "done"
    origin,          \* history: for each byte of stream, "key" or "reply"
    probeTook,       \* history: origin of each byte the probe's reads took from stdin
    probesLeft       \* how many more probes the terminal answers

decodeVars == <<stream, pos, calls>>
reporterVars == <<pc0, stdout0>>
decoderVars == <<decoderPc, keyEvent>>
chanVars == <<keyChannel, chanClosed>>
mainVars == <<mainPc, recvOk, terminalColumns, terminalRows, cursorIndexX,
              cursorIndexY, frames, received, cursorMove, cursorBefore,
              editorLines, frameBuf, writes>>
frameVars == <<frameBuf, writes>>
handoffVars == <<accepted, dropped>>
editorVars == <<decoderVars, chanVars, mainVars, handoffVars>>

rawVars == <<tty, tty0, outDev, oldState, deferred, restores, rawEntered,
             configCalls>>
geomVars == <<sizeQuery, probeReply, geometry, probeSent, pcG>>
idleVars == <<rawVars, geomVars, termSize>>
probeVars == <<origin, probeTook, probesLeft>>

vars == <<decodeVars, probeVars, reporterVars, editorVars, idleVars>>

\* ---------------------------------------------------------------- bounds

\* drawRows on its own is called with 1 to MaxRows rows.
MaxRows == 4

\* The render loop on its own receives up to MaxMoves key events.
MaxMoves == 2

\* Terminal sizes from 0 to MaxDim rows and columns are reported to the
\* geometry resolver.
MaxDim == 12

MaxLen == 4          \* longest stream over GenAlphabet
MaxDigits == 2       \* longest digit string of a generated ESC [ digits ~ stream
MaxKeys == 3         \* most key presses in a stream fed to the editor

\* ------------------------------------------------------- program constants

ESC == 27            \* if inputByte == 27
CR == 13             \* if inputByte == 13
ReadErr == -1        \* stream element: this ReadByte returns err != nil

Byte == 0..255

\* ----------------------------------------------------------------- KeyEvent

KeyCodes ==
    {"KeyUnknown", "KeyArrowUp", "KeyArrowDown", "KeyArrowLeft", "KeyArrowRight",
     "KeyHome", "KeyEnd", "KeyPageUp", "KeyPageDown", "KeyDelete", "KeyEnter",
     "KeyCtrl", "KeyEsc", "KeyRune"}

\* var ev KeyEvent: the zero value
ZeroEvent == [KeyCode |-> "KeyUnknown", Rune |-> 0, Ctrl |-> FALSE]

\* --------------------------------------------------------------- the reader

\* inputReader.ReadByte() at index p of s: past the end every read fails and
\* nothing is consumed; a ReadErr element fails this one read and is consumed
\* (bufio reports a read error once and clears it).
ReadByte(s, p) ==
    IF p > Len(s) THEN [ok |-> FALSE, b |-> 0, pos |-> p]
    ELSE IF s[p] = ReadErr THEN [ok |-> FALSE, b |-> 0, pos |-> p + 1]
    ELSE [ok |-> TRUE, b |-> s[p], pos |-> p + 1]

\* ------------------------------------------------------------- the decoder

\* Mutant of CtrlKey: line feed normalised to Enter as well.
CtrlKeyLfEnter(b) ==
    IF b = CR \/ b = 10
    THEN [KeyCode |-> "KeyEnter", Rune |-> CR, Ctrl |-> TRUE]
    ELSE [KeyCode |-> "KeyRune", Rune |-> 97 - 1 + b, Ctrl |-> TRUE]

\* Mutant of CtrlKey: the carriage-return normalisation left out.
CtrlKeyNoEnter(b) ==
    [KeyCode |-> "KeyRune", Rune |-> 97 - 1 + b, Ctrl |-> TRUE]

\* inputByte in 1..26: Ctrl-A..Ctrl-Z, with 13 normalised to Enter.
CtrlKey(b) ==
    LET ev1 == [ZeroEvent EXCEPT !.KeyCode = "KeyRune",
                                 !.Rune = 97 - 1 + b,
                                 !.Ctrl = TRUE]
    IN  IF b = CR
        THEN [ev1 EXCEPT !.KeyCode = "KeyEnter", !.Rune = CR]
        ELSE ev1

\* Mutant of PrintableKey: the rune folded to lower case.
PrintableKeyLower(b) ==
    [ZeroEvent EXCEPT !.KeyCode = "KeyRune",
                      !.Rune = IF b >= 65 /\ b <= 90 THEN b + 32 ELSE b]

\* inputByte in 32..126: printable ordinary characters.
PrintableKey(b) ==
    IF b = CR \/ b = 10
    THEN [ZeroEvent EXCEPT !.KeyCode = "KeyEnter", !.Rune = CR]
    ELSE [ZeroEvent EXCEPT !.KeyCode = "KeyRune", !.Rune = b]

\* Mutant of CsiLetter: ArrowRight and ArrowLeft exchanged.
CsiLetterSwapped(b) ==
    CASE b = 65 -> "KeyArrowUp"
      [] b = 66 -> "KeyArrowDown"
      [] b = 67 -> "KeyArrowLeft"
      [] b = 68 -> "KeyArrowRight"
      [] b = 72 -> "KeyHome"
      [] b = 70 -> "KeyEnd"
      [] OTHER  -> "KeyEsc"

\* switch inputThirdByte: the cases 'A' 'B' 'C' 'D' 'H' 'F'; "KeyEsc" stands
\* for the default case, where ev.KeyCode keeps the value set at ESC.
CsiLetter(b) ==
    CASE b = 65 -> "KeyArrowUp"
      [] b = 66 -> "KeyArrowDown"
      [] b = 67 -> "KeyArrowRight"
      [] b = 68 -> "KeyArrowLeft"
      [] b = 72 -> "KeyHome"
      [] b = 70 -> "KeyEnd"
      [] OTHER  -> "KeyEsc"

\* Mutant of NumKey: "7" and "8" not recognised.
NumKeyVt(num) ==
    CASE num = <<49>> -> "KeyHome"
      [] num = <<52>> -> "KeyEnd"
      [] num = <<51>> -> "KeyDelete"
      [] num = <<53>> -> "KeyPageUp"
      [] num = <<54>> -> "KeyPageDown"
      [] OTHER -> "KeyEsc"

\* switch string(num): "1","7" Home; "4","8" End; "3" Delete; "5" PageUp;
\* "6" PageDown; no match leaves KeyEsc.
NumKey(num) ==
    CASE num = <<49>> \/ num = <<55>> -> "KeyHome"
      [] num = <<52>> \/ num = <<56>> -> "KeyEnd"
      [] num = <<51>> -> "KeyDelete"
      [] num = <<53>> -> "KeyPageUp"
      [] num = <<54>> -> "KeyPageDown"
      [] OTHER -> "KeyEsc"

\* for { c, err := ReadByte(); ... num = append(num, c) }: read until '~' or
\* a failed read; every other byte is appended to num.
RECURSIVE ReadNum(_, _, _)
ReadNum(s, p, num) ==
    LET r == ReadByte(s, p)
    IN  IF ~r.ok THEN [ok |-> FALSE, code |-> "KeyEsc", pos |-> r.pos]
        ELSE IF r.b = 126 THEN [ok |-> TRUE, code |-> NumKey(num), pos |-> r.pos]
        ELSE ReadNum(s, r.pos, Append(num, r.b))

\* Mutant of EscapeSequence: a failed lookahead read is returned as the error.
EscapeSequenceStrict(s, p) ==
    LET esc(code, q) == [ev |-> [ZeroEvent EXCEPT !.KeyCode = code],
                         err |-> FALSE, pos |-> q]
        fail(q) == [ev |-> [ZeroEvent EXCEPT !.KeyCode = "KeyEsc"],
                    err |-> TRUE, pos |-> q]
        r2 == ReadByte(s, p)
        r3 == ReadByte(s, r2.pos)
    IN  IF ~r2.ok THEN fail(r2.pos)
        ELSE IF r2.b = 91 THEN
            IF ~r3.ok THEN fail(r3.pos)
            ELSE IF CsiLetter(r3.b) # "KeyEsc" THEN esc(CsiLetter(r3.b), r3.pos)
            ELSE IF r3.b >= 48 /\ r3.b <= 57 THEN
                LET n == ReadNum(s, r3.pos, <<r3.b>>)
                IN  IF ~n.ok THEN fail(n.pos) ELSE esc(n.code, n.pos)
            ELSE esc("KeyEsc", r3.pos)
        ELSE IF r2.b = 79 THEN
            IF ~r3.ok THEN fail(r3.pos)
            ELSE IF r3.b = 72 THEN esc("KeyHome", r3.pos)
            ELSE IF r3.b = 70 THEN esc("KeyEnd", r3.pos)
            ELSE esc("KeyEsc", r3.pos)
        ELSE esc("KeyEsc", r2.pos)

\* Mutant of EscapeSequence: a second byte other than '[' or 'O' is unread.
EscapeSequencePushBack(s, p) ==
    LET esc(code, q) == [ev |-> [ZeroEvent EXCEPT !.KeyCode = code],
                         err |-> FALSE, pos |-> q]
        r2 == ReadByte(s, p)
        r3 == ReadByte(s, r2.pos)
    IN  IF ~r2.ok THEN esc("KeyEsc", r2.pos)                 \* lone ESC
        ELSE IF r2.b = 91 THEN                               \* '['
            IF ~r3.ok THEN esc("KeyEsc", r3.pos)
            ELSE IF CsiLetter(r3.b) # "KeyEsc" THEN esc(CsiLetter(r3.b), r3.pos)
            ELSE IF r3.b >= 48 /\ r3.b <= 57 THEN
                LET n == ReadNum(s, r3.pos, <<r3.b>>)
                IN  esc(n.code, n.pos)
            ELSE esc("KeyEsc", r3.pos)                       \* unknown ESC [ sequence
        ELSE IF r2.b = 79 THEN                               \* 'O'
            IF ~r3.ok THEN esc("KeyEsc", r3.pos)
            ELSE IF r3.b = 72 THEN esc("KeyHome", r3.pos)
            ELSE IF r3.b = 70 THEN esc("KeyEnd", r3.pos)
            ELSE esc("KeyEsc", r3.pos)
        ELSE esc("KeyEsc", p)

\* Mutant of EscapeSequence: ESC O A is decoded as ArrowUp.
EscapeSequenceSs3Arrow(s, p) ==
    LET esc(code, q) == [ev |-> [ZeroEvent EXCEPT !.KeyCode = code],
                         err |-> FALSE, pos |-> q]
        r2 == ReadByte(s, p)
        r3 == ReadByte(s, r2.pos)
    IN  IF ~r2.ok THEN esc("KeyEsc", r2.pos)                 \* lone ESC
        ELSE IF r2.b = 91 THEN                               \* '['
            IF ~r3.ok THEN esc("KeyEsc", r3.pos)
            ELSE IF CsiLetter(r3.b) # "KeyEsc" THEN esc(CsiLetter(r3.b), r3.pos)
            ELSE IF r3.b >= 48 /\ r3.b <= 57 THEN
                LET n == ReadNum(s, r3.pos, <<r3.b>>)
                IN  esc(n.code, n.pos)
            ELSE esc("KeyEsc", r3.pos)                       \* unknown ESC [ sequence
        ELSE IF r2.b = 79 THEN                               \* 'O'
            IF ~r3.ok THEN esc("KeyEsc", r3.pos)
            ELSE IF r3.b = 72 THEN esc("KeyHome", r3.pos)
            ELSE IF r3.b = 70 THEN esc("KeyEnd", r3.pos)
            ELSE IF r3.b = 65 THEN esc("KeyArrowUp", r3.pos)
            ELSE esc("KeyEsc", r3.pos)
        ELSE esc("KeyEsc", r2.pos)                           \* second byte discarded

\* if inputByte == 27 { ... }: called with p just after the ESC byte.
EscapeSequence(s, p) ==
    LET esc(code, q) == [ev |-> [ZeroEvent EXCEPT !.KeyCode = code],
                         err |-> FALSE, pos |-> q]
        r2 == ReadByte(s, p)
        r3 == ReadByte(s, r2.pos)
    IN  IF ~r2.ok THEN esc("KeyEsc", r2.pos)                 \* lone ESC
        ELSE IF r2.b = 91 THEN                               \* '['
            IF ~r3.ok THEN esc("KeyEsc", r3.pos)
            ELSE IF CsiLetter(r3.b) # "KeyEsc" THEN esc(CsiLetter(r3.b), r3.pos)
            ELSE IF r3.b >= 48 /\ r3.b <= 57 THEN
                LET n == ReadNum(s, r3.pos, <<r3.b>>)
                IN  esc(n.code, n.pos)
            ELSE esc("KeyEsc", r3.pos)                       \* unknown ESC [ sequence
        ELSE IF r2.b = 79 THEN                               \* 'O'
            IF ~r3.ok THEN esc("KeyEsc", r3.pos)
            ELSE IF r3.b = 72 THEN esc("KeyHome", r3.pos)
            ELSE IF r3.b = 70 THEN esc("KeyEnd", r3.pos)
            ELSE esc("KeyEsc", r3.pos)
        ELSE esc("KeyEsc", r2.pos)                           \* second byte discarded

\* Mutant of ReadKeyBlocking: byte 127 is decoded as Delete.
ReadKeyBlockingDel(s, p) ==
    LET r1 == ReadByte(s, p)
    IN  IF ~r1.ok THEN [ev |-> ZeroEvent, err |-> TRUE, pos |-> r1.pos]
        ELSE IF r1.b >= 1 /\ r1.b <= 26
            THEN [ev |-> CtrlKey(r1.b), err |-> FALSE, pos |-> r1.pos]
        ELSE IF r1.b >= 32 /\ r1.b <= 126
            THEN [ev |-> PrintableKey(r1.b), err |-> FALSE, pos |-> r1.pos]
        ELSE IF r1.b = ESC THEN EscapeSequence(s, r1.pos)
        ELSE IF r1.b = 127
            THEN [ev |-> [ZeroEvent EXCEPT !.KeyCode = "KeyDelete"],
                  err |-> FALSE, pos |-> r1.pos]
        ELSE [ev |-> ZeroEvent, err |-> FALSE, pos |-> r1.pos]

\* readKeyBlocking(inputReader) with the reader at index p of s:
\* the event, whether err != nil, and the reader's index afterwards.
ReadKeyBlocking(s, p) ==
    LET r1 == ReadByte(s, p)
    IN  IF ~r1.ok THEN [ev |-> ZeroEvent, err |-> TRUE, pos |-> r1.pos]
        ELSE IF r1.b >= 1 /\ r1.b <= 26
            THEN [ev |-> CtrlKey(r1.b), err |-> FALSE, pos |-> r1.pos]
        ELSE IF r1.b >= 32 /\ r1.b <= 126
            THEN [ev |-> PrintableKey(r1.b), err |-> FALSE, pos |-> r1.pos]
        ELSE IF r1.b = ESC THEN EscapeSequence(s, r1.pos)
        ELSE [ev |-> ZeroEvent, err |-> FALSE, pos |-> r1.pos]

\* The record kept in calls for one call made at index p.
CallRecord(s, p) ==
    LET r == ReadKeyBlocking(s, p)
    IN  [from |-> p, to |-> r.pos, ev |-> r.ev, err |-> r.err]

\* ------------------------------------------------- key reporter (main.go)

\* Quit on Ctrl-Q: ev.Ctrl && ev.Rune == 'q'
IsQuit(ev) == ev.Ctrl /\ ev.Rune = 113

\* switch ev.KeyCode { ... }: the line printed for an event.
PrintKey(ev) ==
    CASE ev.KeyCode = "KeyRune" ->
            IF ev.Ctrl THEN <<"Ctrl + ", ev.Rune>> ELSE <<"Rune: ", ev.Rune>>
      [] ev.KeyCode = "KeyEnter" -> <<"Enter">>
      [] ev.KeyCode = "KeyArrowUp" -> <<"ArrowUp">>
      [] ev.KeyCode = "KeyArrowDown" -> <<"ArrowDown">>
      [] ev.KeyCode = "KeyArrowLeft" -> <<"ArrowLeft">>
      [] ev.KeyCode = "KeyArrowRight" -> <<"ArrowRight">>
      [] ev.KeyCode = "KeyHome" -> <<"Home">>
      [] ev.KeyCode = "KeyEnd" -> <<"End">>
      [] ev.KeyCode = "KeyPageUp" -> <<"PageUp">>
      [] ev.KeyCode = "KeyPageDown" -> <<"PageDown">>
      [] ev.KeyCode = "KeyDelete" -> <<"Delete">>
      [] ev.KeyCode = "KeyEsc" -> <<"Escape">>
      [] OTHER -> <<"Unknown key">>

\* One iteration of the key reporter's for loop.
ReportKey ==
    /\ pc0 = "loop"
    /\ LET c == CallRecord(stream, pos)
       IN  /\ pos' = c.to
           /\ calls' = Append(calls, c)
           /\ IF c.err THEN
                  /\ pc0' = "done"                    \* "read error:", break
                  /\ stdout0' = stdout0
              ELSE IF IsQuit(c.ev) THEN
                  /\ pc0' = "done"
                  /\ stdout0' = Append(stdout0, <<"Quit (Ctrl-Q)">>)
              ELSE
                  /\ pc0' = "loop"
                  /\ stdout0' = Append(stdout0, PrintKey(c.ev))
    /\ UNCHANGED <<stream, probeVars, editorVars, idleVars>>

\* ------------------------------------------------- editor: getTerminalSize

\* bytes.IndexByte(s, b): 0-based index of the first b in s, or -1.
IndexByte(s, b) ==
    IF \E i \in DOMAIN s : s[i] = b
    THEN (CHOOSE i \in DOMAIN s : s[i] = b /\ \A j \in 1..(i - 1) : s[j] # b) - 1
    ELSE 0 - 1

\* Index of the first element of s at or after i that is not in set.
RECURSIVE SkipWhile(_, _, _)
SkipWhile(s, i, set) ==
    IF i <= Len(s) /\ s[i] \in set THEN SkipWhile(s, i + 1, set) ELSE i

\* Value of a string of decimal digits.
RECURSIVE Decimal(_)
Decimal(d) ==
    IF d = <<>> THEN 0
    ELSE 10 * Decimal(SubSeq(d, 1, Len(d) - 1)) + (d[Len(d)] - 48)

\* fmt's %d at index i of s: blanks skipped, an optional sign, then digits
\* and underscores as one token, which strconv.ParseInt must accept in base 10.
ScanInt(s, i) ==
    LET j == SkipWhile(s, i, {32, 9, 13})
        k == IF j <= Len(s) /\ s[j] \in {43, 45} THEN j + 1 ELSE j
        e == SkipWhile(s, k, (48..57) \cup {95})
        tok == SubSeq(s, k, e - 1)
    IN  IF e = k \/ \E n \in DOMAIN tok : tok[n] = 95
        THEN [ok |-> FALSE, val |-> 0, next |-> e]
        ELSE [ok |-> TRUE,
              val |-> IF k > j /\ s[j] = 45 THEN 0 - Decimal(tok) ELSE Decimal(tok),
              next |-> e]

\* fmt.Sscanf(s, "%d;%d", &rows, &cols): perr == nil and the two values.
ScanRowsCols(s) ==
    LET a == ScanInt(s, 1)
        b == ScanInt(s, a.next + 1)
    IN  IF a.ok /\ a.next <= Len(s) /\ s[a.next] = 59 /\ b.ok
        THEN [ok |-> TRUE, rows |-> a.val, cols |-> b.val]
        ELSE [ok |-> FALSE, rows |-> 0, cols |-> 0]

\* The decimal digits of n, as strconv writes them.
RECURSIVE Digits(_)
Digits(n) == IF n < 10 THEN <<48 + n>> ELSE Digits(n \div 10) \o <<48 + (n % 10)>>

\* The terminal's answer to ansiCursorPositionGet with the cursor on row r
\* and column c: ESC [ r ; c R.
CursorReport(r, c) == <<ESC, 91>> \o Digits(r) \o <<59>> \o Digits(c) \o <<82>>

defaultRows == 25
defaultCols == 80

\* Mutant of GetTerminalSize: the parsed pair is returned as rows, cols.
GetTerminalSizeTransposed(q, reply) ==
    IF ~q.err /\ q.columns > 0 /\ q.rows > 0
    THEN [columns |-> q.columns, rows |-> q.rows, err |-> FALSE]
    ELSE
        LET esc == IndexByte(reply, 91)
            rowsAndCols == IndexByte(reply, 82)
            p == ScanRowsCols(SubSeq(reply, esc + 2, rowsAndCols))
        IN  IF Len(reply) > 0 /\ esc >= 0 /\ rowsAndCols > esc
               /\ p.ok /\ p.cols > 0 /\ p.rows > 0
            THEN [columns |-> p.rows, rows |-> p.cols, err |-> FALSE]
            ELSE [columns |-> defaultRows, rows |-> defaultCols, err |-> TRUE]

\* Mutant of GetTerminalSize: the query result is accepted when either of
\* its fields is positive.
GetTerminalSizeLax(q, reply) ==
    IF ~q.err /\ (q.columns > 0 \/ q.rows > 0)
    THEN [columns |-> q.columns, rows |-> q.rows, err |-> FALSE]
    ELSE
        LET esc == IndexByte(reply, 91)
            rowsAndCols == IndexByte(reply, 82)
            p == ScanRowsCols(SubSeq(reply, esc + 2, rowsAndCols))
        IN  IF Len(reply) > 0 /\ esc >= 0 /\ rowsAndCols > esc
               /\ p.ok /\ p.cols > 0 /\ p.rows > 0
            THEN [columns |-> p.cols, rows |-> p.rows, err |-> FALSE]
            ELSE [columns |-> defaultRows, rows |-> defaultCols, err |-> TRUE]

\* getTerminalSize(fd): q is what term.GetSize returns, reply the bytes the
\* probe's os.Stdin.Read returns (none when the read times out or fails).
GetTerminalSize(q, reply) ==
    IF ~q.err /\ q.columns > 0 /\ q.rows > 0
    THEN [columns |-> q.columns, rows |-> q.rows, err |-> FALSE]
    ELSE
        LET esc == IndexByte(reply, 91)
            rowsAndCols == IndexByte(reply, 82)
            p == ScanRowsCols(SubSeq(reply, esc + 2, rowsAndCols))
        IN  IF Len(reply) > 0 /\ esc >= 0 /\ rowsAndCols > esc
               /\ p.ok /\ p.cols > 0 /\ p.rows > 0
            THEN [columns |-> p.cols, rows |-> p.rows, err |-> FALSE]
            \* return defaultRows, defaultCols, fmt.Errorf(...)
            ELSE [columns |-> defaultRows, rows |-> defaultCols, err |-> TRUE]

\* What getTerminalSize prints on q: nothing when term.GetSize gave a size,
\* otherwise the probe's codes around its read.
ProbeOutput(q) ==
    IF ~q.err /\ q.columns > 0 /\ q.rows > 0
    THEN <<>>
    ELSE <<"ansiCursorPositionSave", "ansiCursorPositionMoveToOffScreen",
           "ansiCursorPositionRequest", "ansiCursorPositionRestore">>

\* One call of getTerminalSize on its own.
ResolveGeometry ==
    /\ pcG = "call"
    /\ geometry' = GetTerminalSize(sizeQuery, probeReply)
    /\ probeSent' = ProbeOutput(sizeQuery)
    /\ pcG' = "done"
    /\ UNCHANGED <<decodeVars, probeVars, reporterVars, editorVars, rawVars, termSize,
                   sizeQuery, probeReply>>

\* ------------------------------------------------ editor: editorMoveCursor

\* Mutant of EditorMoveCursor: ArrowRight moves right and wraps to column 0.
EditorMoveCursorWraps(ev, x, y, columns, rows) ==
    LET x1 == CASE ev.Rune = 104 -> IF x > 0 THEN x - 1 ELSE x
                [] ev.Rune = 108 -> IF x < columns - 1 THEN x + 1 ELSE x
                [] OTHER -> x
        y1 == CASE ev.Rune = 107 -> IF y > 0 THEN y - 1 ELSE y
                [] ev.Rune = 106 -> IF y < rows - 1 THEN y + 1 ELSE y
                [] OTHER -> y
        x2 == CASE ev.KeyCode = "KeyHome" -> 0
                [] ev.KeyCode = "KeyEnd" -> IF columns > 0 THEN columns - 1 ELSE x1
                [] ev.KeyCode = "KeyArrowRight" -> (x1 + 1) % columns
                [] OTHER -> x1
        y2 == CASE ev.KeyCode = "KeyPageUp" -> 0
                [] ev.KeyCode = "KeyPageDown" -> IF rows > 0 THEN rows - 1 ELSE y1
                [] OTHER -> y1
    IN  <<x2, y2>>

\* Mutant of EditorMoveCursor: the cases of 'h' and 'l' are exchanged.
EditorMoveCursorSwapped(ev, x, y, columns, rows) ==
    LET x1 == CASE ev.Rune = 108 -> IF x > 0 THEN x - 1 ELSE x
                [] ev.Rune = 104 -> IF x < columns - 1 THEN x + 1 ELSE x
                [] OTHER -> x
        y1 == CASE ev.Rune = 107 -> IF y > 0 THEN y - 1 ELSE y
                [] ev.Rune = 106 -> IF y < rows - 1 THEN y + 1 ELSE y
                [] OTHER -> y
        x2 == CASE ev.KeyCode = "KeyHome" -> 0
                [] ev.KeyCode = "KeyEnd" -> IF columns > 0 THEN columns - 1 ELSE x1
                [] OTHER -> x1
        y2 == CASE ev.KeyCode = "KeyPageUp" -> 0
                [] ev.KeyCode = "KeyPageDown" -> IF rows > 0 THEN rows - 1 ELSE y1
                [] OTHER -> y1
    IN  <<x2, y2>>

\* Mutant of EditorMoveCursor: PageDown jumps to row rows instead of rows-1.
EditorMoveCursorPastEnd(ev, x, y, columns, rows) ==
    LET x1 == CASE ev.Rune = 104 -> IF x > 0 THEN x - 1 ELSE x
                [] ev.Rune = 108 -> IF x < columns - 1 THEN x + 1 ELSE x
                [] OTHER -> x
        y1 == CASE ev.Rune = 107 -> IF y > 0 THEN y - 1 ELSE y
                [] ev.Rune = 106 -> IF y < rows - 1 THEN y + 1 ELSE y
                [] OTHER -> y
        x2 == CASE ev.KeyCode = "KeyHome" -> 0
                [] ev.KeyCode = "KeyEnd" -> IF columns > 0 THEN columns - 1 ELSE x1
                [] OTHER -> x1
        y2 == CASE ev.KeyCode = "KeyPageUp" -> 0
                [] ev.KeyCode = "KeyPageDown" -> IF rows > 0 THEN rows ELSE y1
                [] OTHER -> y1
    IN  <<x2, y2>>

\* editorMoveCursor(ev, terminalColumns, terminalRows) on cursor <<x, y>>.
EditorMoveCursor(ev, x, y, columns, rows) ==
    LET x1 == CASE ev.Rune = 104 -> IF x > 0 THEN x - 1 ELSE x
                [] ev.Rune = 108 -> IF x < columns - 1 THEN x + 1 ELSE x
                [] OTHER -> x
        y1 == CASE ev.Rune = 107 -> IF y > 0 THEN y - 1 ELSE y
                [] ev.Rune = 106 -> IF y < rows - 1 THEN y + 1 ELSE y
                [] OTHER -> y
        x2 == CASE ev.KeyCode = "KeyHome" -> 0
                [] ev.KeyCode = "KeyEnd" -> IF columns > 0 THEN columns - 1 ELSE x1
                [] OTHER -> x1
        y2 == CASE ev.KeyCode = "KeyPageUp" -> 0
                [] ev.KeyCode = "KeyPageDown" -> IF rows > 0 THEN rows - 1 ELSE y1
                [] OTHER -> y1
    IN  <<x2, y2>>

\* ------------------------------------------- editor: drawRows, refreshTerminal

\* One WriteString of a code named as in the source, or of text.
Code(name) == [code |-> name, text |-> <<>>]
Text(s) == [code |-> "", text |-> s]

\* fmt.Sprintf(ansiCursorPositionMove, row, col)
CursorPositionMove(row, col) == [code |-> "ansiCursorPositionMove", text |-> <<row, col>>]

\* "~" and "\r\n"
Tilde == Text(<<126>>)
CrLf == Text(<<13, 10>>)

\* fmt.Sprintf("VimGo -- version %s", editorVersion), 20 bytes
Welcome ==
    <<86, 105, 109, 71, 111, 32, 45, 45, 32, 118, 101, 114, 115, 105, 111, 110,
      32, 48, 46, 49>>

\* s[:n] when len(s) > n, else s
Truncate(s, n) == IF Len(s) > n THEN SubSeq(s, 1, n) ELSE s

\* strings.Repeat(" ", n)
Spaces(n) == [k \in 1..n |-> 32]

\* Mutant of DrawRow: the welcome row is at half of the screen height.
DrawRowHalf(lines, i, columns, rows) ==
    <<Code("ansiLineClear")>>
    \o (IF Len(lines) = 0 THEN
            IF i = rows \div 2 THEN
                LET padding == IF columns >= Len(Welcome)
                               THEN (columns - Len(Welcome)) \div 2 ELSE 0
                IN  <<Tilde>>
                    \o (IF padding > 0 THEN <<Text(Spaces(padding))>> ELSE <<>>)
                    \o <<Text(Truncate(Welcome, columns))>>
            ELSE <<Tilde>>
        ELSE
            IF i < Len(lines)
            THEN <<Text(Truncate(lines[i + 1], columns))>>
            ELSE <<Tilde>>)
    \o (IF i < rows - 1 THEN <<CrLf>> ELSE <<>>)

\* The body of drawRows' loop for row i.
DrawRow(lines, i, columns, rows) ==
    <<Code("ansiLineClear")>>
    \o (IF Len(lines) = 0 THEN
            IF i = rows \div 3 THEN
                LET padding == IF columns >= Len(Welcome)
                               THEN (columns - Len(Welcome)) \div 2 ELSE 0
                IN  <<Tilde>>
                    \o (IF padding > 0 THEN <<Text(Spaces(padding))>> ELSE <<>>)
                    \o <<Text(Truncate(Welcome, columns))>>
            ELSE <<Tilde>>
        ELSE
            IF i < Len(lines)
            THEN <<Text(Truncate(lines[i + 1], columns))>>
            ELSE <<Tilde>>)
    \o (IF i < rows - 1 THEN <<CrLf>> ELSE <<>>)

\* drawRows(buf, terminalColumns, terminalRows): what rows i.. append to buf.
RECURSIVE DrawRowsFrom(_, _, _, _)
DrawRowsFrom(lines, i, columns, rows) ==
    IF i < rows
    THEN DrawRow(lines, i, columns, rows) \o DrawRowsFrom(lines, i + 1, columns, rows)
    ELSE <<>>

DrawRows(lines, columns, rows) == DrawRowsFrom(lines, 0, columns, rows)

\* Mutant of RefreshTerminal: the cursor is shown before it is moved.
RefreshTerminalShowFirst(lines, columns, rows, x, y) ==
    <<Code("ansiCursorHide"), Code("ansiScrollbackClear"),
      Code("ansiCursorPositionToHome")>>
    \o DrawRows(lines, columns, rows)
    \o <<Code("ansiCursorShow"), CursorPositionMove(y + 1, x + 1)>>

\* refreshTerminal(columns, rows): the buffer handed to os.Stdout.Write.
RefreshTerminal(lines, columns, rows, x, y) ==
    <<Code("ansiCursorHide"), Code("ansiScrollbackClear"),
      Code("ansiCursorPositionToHome")>>
    \o DrawRows(lines, columns, rows)
    \o <<CursorPositionMove(y + 1, x + 1), Code("ansiCursorShow")>>

\* One call of drawRows on its own, into an empty buffer.
DrawPass ==
    /\ mainPc = "draw"
    /\ frameBuf' = DrawRows(editorLines, terminalColumns, terminalRows)
    /\ mainPc' = "drawn"
    /\ UNCHANGED <<decodeVars, probeVars, reporterVars, idleVars, decoderVars, chanVars,
                   handoffVars, recvOk, terminalColumns, terminalRows,
                   cursorIndexX, cursorIndexY, frames, received, cursorMove,
                   cursorBefore, editorLines, writes>>

\* ------------------------------------------------------ editor: raw mode

\* The terminal devices the two descriptors may be open on: os.Stdin is on
\* "A"; os.Stdout is on "A" too, or on the second terminal "B".
Devices == {"A", "B"}

\* The attribute bits the program or x/term touches. CS8 is both bits of the
\* character-size field, here "CS6" and "CS7".
CS8 == {"CS6", "CS7"}

\* An interactive shell's line discipline, and a 7-bit line with parity.
Cooked ==
    [flags |-> {"BRKINT", "ICRNL", "IXON", "OPOST", "ECHO", "ICANON", "ISIG",
                "IEXTEN", "CS6", "CS7"},
     vmin |-> 1, vtime |-> 0]
SevenBit ==
    [flags |-> {"INPCK", "ISTRIP", "ICRNL", "OPOST", "ECHO", "ICANON", "ISIG",
                "CS7", "PARENB"},
     vmin |-> 4, vtime |-> 2]
TtyStates == {Cooked, SevenBit}

\* The attribute changes of term.MakeRaw(fd).
MakeRaw(t) ==
    [flags |-> (t.flags \ {"IGNBRK", "BRKINT", "PARMRK", "ISTRIP", "INLCR",
                           "IGNCR", "ICRNL", "IXON", "OPOST", "ECHO", "ECHONL",
                           "ICANON", "ISIG", "IEXTEN", "CS6", "CS7", "PARENB"})
                \cup CS8,
     vmin |-> 1, vtime |-> 0]

\* Mutant of TerminalRawConfigure: ECHO is cleared as well.
TerminalRawConfigureNoEcho(t) ==
    [t EXCEPT !.flags = (@ \ {"ISIG", "IXON", "IEXTEN", "ICRNL", "BRKINT",
                              "INPCK", "ISTRIP", "OPOST", "ECHO"}) \cup CS8]

\* The attribute changes of terminalRawConfigure(fd).
TerminalRawConfigure(t) ==
    [t EXCEPT !.flags = (@ \ {"ISIG", "IXON", "IEXTEN", "ICRNL", "BRKINT",
                              "INPCK", "ISTRIP", "OPOST"}) \cup CS8]

\* One call of terminalRawConfigure(stdin) on its own: IoctlGetTermios
\* (return err when it fails), the flag changes, IoctlSetTermios (whose error
\* is returned).
ConfigureCall ==
    /\ mainPc = "configure"
    /\ Len(configCalls) < 2
    /\ \E getOk, setOk \in BOOLEAN :
        IF ~getOk THEN
            /\ configCalls' = Append(configCalls,
                                     [get |-> FALSE, set |-> "none", err |-> TRUE])
            /\ tty' = tty
        ELSE IF setOk THEN
            /\ configCalls' = Append(configCalls,
                                     [get |-> TRUE, set |-> "ok", err |-> FALSE])
            /\ tty' = [tty EXCEPT !["A"] = TerminalRawConfigure(@)]
        ELSE
            /\ configCalls' = Append(configCalls,
                                     [get |-> TRUE, set |-> "failed", err |-> TRUE])
            /\ tty' = tty
    /\ UNCHANGED <<decodeVars, probeVars, reporterVars, editorVars, geomVars, termSize,
                   tty0, outDev, oldState, deferred, restores, rawEntered>>

\* main up to the start of the goroutine: term.MakeRaw (log.Fatalf on error),
\* terminalRawConfigure on stdin and on stdout (panic on error), the
\* alternate screen, the two defers, go func.
MainEnterRaw ==
    /\ mainPc = "start"
    /\ \E makeRawOk, inOk, outOk \in BOOLEAN :
        IF ~makeRawOk THEN
            /\ mainPc' = "fatal"
            /\ UNCHANGED <<tty, oldState, deferred, rawEntered, decoderPc>>
        ELSE
            LET t1 == [tty EXCEPT !["A"] = MakeRaw(@)]
                t2 == [t1 EXCEPT !["A"] = TerminalRawConfigure(@)]
                t3 == [t2 EXCEPT ![outDev] = TerminalRawConfigure(@)]
            IN  /\ oldState' = <<tty["A"]>>
                /\ rawEntered' = TRUE
                /\ IF ~inOk THEN
                       /\ tty' = t1
                       /\ mainPc' = "panic"
                       /\ UNCHANGED <<deferred, decoderPc>>
                   ELSE IF ~outOk THEN
                       /\ tty' = t2
                       /\ mainPc' = "panic"
                       /\ UNCHANGED <<deferred, decoderPc>>
                   ELSE
                       /\ tty' = t3
                       /\ deferred' = <<"term.Restore", "ansiScreenAltOff">>
                       /\ decoderPc' = "read"
                       /\ mainPc' = "open"
    /\ UNCHANGED <<decodeVars, probeVars, reporterVars, geomVars, termSize, tty0, outDev,
                   configCalls, restores, keyEvent, chanVars, handoffVars, recvOk,
                   terminalColumns, terminalRows, cursorIndexX, cursorIndexY,
                   frames, received, cursorMove,
                   cursorBefore, editorLines, frameVars>>

\* The lines of the file named on the command line: none (no argument, or an
\* empty file), or the one line "hi".
OpenFiles == {<<>>, << <<104, 105>> >>}

\* if len(os.Args) > 1 { openEditor(os.Args[1]) }: log.Fatalf on error.
MainOpen ==
    /\ mainPc = "open"
    /\ \E openOk \in BOOLEAN, file \in OpenFiles :
        /\ mainPc' = IF openOk THEN "frame" ELSE "fatal"
        /\ editorLines' = IF openOk THEN editorLines \o file ELSE <<>>
    /\ UNCHANGED <<decodeVars, probeVars, reporterVars, idleVars, decoderVars, chanVars,
                   handoffVars, recvOk, terminalColumns, terminalRows,
                   cursorIndexX, cursorIndexY, frames, received, cursorMove,
                   cursorBefore, frameVars>>

\* main returns or panics: its deferred calls run, the last registered first.
\* log.Fatalf ends the process in os.Exit, which runs none of them.
MainExit ==
    /\ mainPc \in {"returned", "panic"}
    /\ mainPc' = "exited"
    /\ deferred' = <<>>
    /\ IF \E i \in DOMAIN deferred : deferred[i] = "term.Restore"
       THEN /\ tty' = [tty EXCEPT !["A"] = oldState[1]]
            /\ restores' = restores + 1
       ELSE UNCHANGED <<tty, restores>>
    /\ UNCHANGED <<decodeVars, probeVars, reporterVars, geomVars, termSize, tty0, outDev,
                   configCalls, oldState, rawEntered, decoderVars, chanVars, handoffVars,
                   recvOk, terminalColumns, terminalRows, cursorIndexX,
                   cursorIndexY, frames, received, cursorMove,
                   cursorBefore, editorLines, frameVars>>

\* ------------------------------------------- editor: the decoder goroutine

\* The bytes of the key presses that matter to the cursor: h l j k, Ctrl-H,
\* the arrows up, down, right, left, Home, End, PageUp, PageDown, and Ctrl-Q.
CursorKeys ==
    {<<104>>, <<108>>, <<106>>, <<107>>, <<8>>,
     <<ESC, 91, 65>>, <<ESC, 91, 66>>, <<ESC, 91, 67>>, <<ESC, 91, 68>>,
     <<ESC, 91, 72>>, <<ESC, 91, 70>>, <<ESC, 91, 53, 126>>, <<ESC, 91, 54, 126>>,
     <<17>>}

\* <<columns, rows>> of the terminal window.
WindowSizes == {<<1, 1>>, <<3, 2>>, <<2, 3>>}

\* The process ends when main returns or panics, or log.Fatalf exits.
Running == mainPc \in {"open", "frame", "probe", "select"}

\* keyEvent, err := readKeyBlocking(reader); if err != nil { close; return }
DecoderRead ==
    /\ Running
    /\ decoderPc = "read"
    /\ LET c == CallRecord(stream, pos)
       IN  /\ pos' = c.to
           /\ calls' = Append(calls, c)
           /\ IF c.err
              THEN /\ chanClosed' = TRUE
                   /\ decoderPc' = "done"
                   /\ keyEvent' = keyEvent
              ELSE /\ chanClosed' = chanClosed
                   /\ decoderPc' = "send"
                   /\ keyEvent' = c.ev
    /\ UNCHANGED <<stream, probeVars, reporterVars, idleVars, keyChannel, mainVars,
                   handoffVars>>

\* Mutant of DecoderSelect: a full slot is overwritten by the new event.
DecoderSelectLatestWins ==
    /\ Running
    /\ decoderPc = "send"
    /\ keyChannel' = <<keyEvent>>
    /\ accepted' = Append(accepted, Len(calls))
    /\ dropped' = dropped
    /\ decoderPc' = "read"
    /\ UNCHANGED <<decodeVars, probeVars, reporterVars, idleVars, keyEvent, chanClosed, mainVars>>

\* select { case keyChannel <- keyEvent: default: }
DecoderSelect ==
    /\ Running
    /\ decoderPc = "send"
    /\ \/ /\ Len(keyChannel) < 1                     \* cap(keyChannel) = 1
          /\ keyChannel' = Append(keyChannel, keyEvent)
          /\ accepted' = Append(accepted, Len(calls))
          /\ dropped' = dropped
       \/ /\ Len(keyChannel) >= 1                    \* default: drop
          /\ keyChannel' = keyChannel
          /\ accepted' = accepted
          /\ dropped' = dropped \cup {Len(calls)}
    /\ decoderPc' = "read"
    /\ UNCHANGED <<decodeVars, probeVars, reporterVars, idleVars, keyEvent, chanClosed, mainVars>>

\* ---------------------------------------------------- editor: render loop

\* What term.GetSize(fd) may return: the window's size, zeros, an error.
SizeQueries ==
    {[columns |-> termSize[1], rows |-> termSize[2], err |-> FALSE],
     [columns |-> 0, rows |-> 0, err |-> FALSE],
     [columns |-> 0, rows |-> 0, err |-> TRUE]}

\* What the probe's read may return when it does not compete with the decoder
\* for the input: nothing, the terminal's report of its size, ESC[0;0R, a
\* keystroke. The reply is chosen freely in each frame.
ProbeReplies ==
    {<<>>, CursorReport(termSize[2], termSize[1]),
     <<ESC, 91, 48, 59, 48, 82>>, <<108>>}

\* len(responceBuffer)
ProbeBufferSize == 32

\* term.GetSize has failed and getTerminalSize has printed its request; the
\* terminal's report enters the input behind j of the bytes the decoder has
\* not read yet. Main goes on to os.Stdin.Read while the decoder's
\* bufio.Reader is reading the same descriptor.
MainProbeRequest ==
    /\ mainPc = "frame"
    /\ probesLeft > 0
    /\ \E j \in 0..(Len(stream) - pos + 1) :
        LET report == CursorReport(termSize[2], termSize[1])
        IN  /\ stream' = SubSeq(stream, 1, pos + j - 1) \o report
                              \o SubSeq(stream, pos + j, Len(stream))
            /\ origin' = SubSeq(origin, 1, pos + j - 1)
                              \o [i \in 1..Len(report) |-> "reply"]
                              \o SubSeq(origin, pos + j, Len(origin))
    /\ probesLeft' = probesLeft - 1
    /\ mainPc' = "probe"
    /\ UNCHANGED <<pos, calls, probeTook, reporterVars, idleVars, decoderVars, chanVars,
                   handoffVars, recvOk, terminalColumns, terminalRows, cursorIndexX,
                   cursorIndexY, frames, received, cursorMove, cursorBefore,
                   editorLines, frameVars>>

\* os.Stdin.Read(responceBuffer) after the request: it returns the first k
\* bytes the decoder has not read and the rest stays for the decoder. The
\* program does not order the two reads, so every k is an outcome.
SharedRead(k) ==
    [reply |-> SubSeq(stream, pos, pos + k - 1),
     stream |-> SubSeq(stream, 1, pos - 1) \o SubSeq(stream, pos + k, Len(stream)),
     origin |-> SubSeq(origin, 1, pos - 1) \o SubSeq(origin, pos + k, Len(origin)),
     took |-> SubSeq(origin, pos, pos + k - 1)]

\* The outcomes of the probe's read in one frame: after MainProbeRequest a
\* read of the shared input, otherwise a reply that leaves the decoder's input
\* alone.
ProbeOutcomes ==
    IF mainPc = "probe"
    THEN {SharedRead(k) :
              k \in {n \in 0..(Len(stream) - pos + 1) : n <= ProbeBufferSize}}
    ELSE {[reply |-> r, stream |-> stream, origin |-> origin, took |-> <<>>] :
              r \in ProbeReplies}

\* getTerminalSize and refreshTerminal at the top of the loop; log.Fatalf on
\* an error of either.
MainFrame ==
    /\ mainPc \in {"frame", "probe"}
    /\ \E q \in SizeQueries, p \in ProbeOutcomes, writeOk \in BOOLEAN :
        LET g == GetTerminalSize(q, p.reply)
        IN  /\ mainPc = "probe" => ProbeOutput(q) # <<>>
            /\ IF ProbeOutput(q) # <<>> THEN
                   /\ stream' = p.stream
                   /\ origin' = p.origin
                   /\ probeTook' = probeTook \o p.took
               ELSE
                   UNCHANGED <<stream, origin, probeTook>>
            /\ probesLeft' = probesLeft
            /\ terminalColumns' = g.columns
            /\ terminalRows' = g.rows
            /\ IF g.err THEN
                   /\ mainPc' = "fatal"
                   /\ UNCHANGED <<frames, cursorMove, frameVars>>
               ELSE
                   /\ frameBuf' = RefreshTerminal(editorLines, g.columns, g.rows,
                                                  cursorIndexX, cursorIndexY)
                   /\ writes' = writes + 1
                   /\ IF writeOk THEN
                          /\ mainPc' = "select"
                          /\ frames' = frames + 1
                          \* ansiCursorPositionMove with cursorIndexY+1, cursorIndexX+1
                          /\ cursorMove' = <<cursorIndexY + 1, cursorIndexX + 1>>
                      ELSE
                          /\ mainPc' = "fatal"
                          /\ UNCHANGED <<frames, cursorMove>>
    /\ UNCHANGED <<pos, calls, reporterVars, idleVars, decoderVars, chanVars, handoffVars,
                   recvOk, cursorIndexX, cursorIndexY, received, cursorBefore,
                   editorLines>>

\* Mutant of MainReceive: the quit test compares with 'c' instead of 'q'.
MainReceiveNoQuit ==
    /\ mainPc = "select"
    /\ keyChannel # <<>>
    /\ LET ev == Head(keyChannel)
           c == EditorMoveCursor(ev, cursorIndexX, cursorIndexY,
                                 terminalColumns, terminalRows)
       IN  /\ keyChannel' = Tail(keyChannel)
           /\ recvOk' = TRUE
           /\ received' = Append(received, ev)
           /\ cursorBefore' = <<cursorIndexX, cursorIndexY>>
           /\ cursorIndexX' = c[1]
           /\ cursorIndexY' = c[2]
           /\ mainPc' = IF ev.Ctrl /\ ev.Rune = 99 THEN "returned" ELSE "frame"
    /\ UNCHANGED <<decodeVars, probeVars, reporterVars, idleVars,
                   decoderVars, chanClosed, handoffVars,
                   terminalColumns, terminalRows, frames, cursorMove,
                   editorLines, frameVars>>

\* case ev, ok := <-keyChannel with a value: editorMoveCursor, then the
\* Ctrl-Q test.
MainReceive ==
    /\ mainPc = "select"
    /\ keyChannel # <<>>
    /\ LET ev == Head(keyChannel)
           c == EditorMoveCursor(ev, cursorIndexX, cursorIndexY,
                                 terminalColumns, terminalRows)
       IN  /\ keyChannel' = Tail(keyChannel)
           /\ recvOk' = TRUE
           /\ received' = Append(received, ev)
           /\ cursorBefore' = <<cursorIndexX, cursorIndexY>>
           /\ cursorIndexX' = c[1]
           /\ cursorIndexY' = c[2]
           /\ mainPc' = IF IsQuit(ev) THEN "returned" ELSE "frame"
    /\ UNCHANGED <<decodeVars, probeVars, reporterVars, idleVars,
                   decoderVars, chanClosed, handoffVars,
                   terminalColumns, terminalRows, frames, cursorMove,
                   editorLines, frameVars>>

\* case ev, ok := <-keyChannel on the closed, drained channel: if !ok { return }
MainClosed ==
    /\ mainPc = "select"
    /\ keyChannel = <<>>
    /\ chanClosed
    /\ recvOk' = FALSE
    /\ mainPc' = "returned"
    /\ UNCHANGED <<decodeVars, probeVars, reporterVars, idleVars,
                   decoderVars, chanVars, handoffVars,
                   terminalColumns, terminalRows, cursorIndexX, cursorIndexY,
                   frames, received, cursorMove,
                   cursorBefore, editorLines, frameVars>>

\* The goroutine's loop in one step, for the render loop on its own: a key
\* press is decoded and the empty channel takes the event.
KeyArrives ==
    /\ Running
    /\ decoderPc = "off"
    /\ keyChannel = <<>>
    /\ Len(received) < MaxMoves
    /\ \E k \in CursorKeys : keyChannel' = <<ReadKeyBlocking(k, 1).ev>>
    /\ UNCHANGED <<decodeVars, probeVars, reporterVars, idleVars, decoderVars, chanClosed,
                   mainVars, handoffVars>>

\* The user resizes the terminal window.
Resize ==
    /\ Running
    /\ \E s \in WindowSizes \ {termSize} : termSize' = s
    /\ UNCHANGED <<decodeVars, probeVars, reporterVars, editorVars, rawVars, geomVars>>

DecoderStep == DecoderRead \/ DecoderSelect
MainStep == MainFrame \/ MainReceive \/ MainClosed

\* ----------------------------------------------------- input streams

Seqs(A, n) == UNION {[1..k -> A] : k \in 0..n}

\* What may follow the sequence under test.
Tails == {<<>>, <<120>>, <<ESC>>}

\* Every leading byte, alone and followed by more input.
LeadStreams == {<<b>> \o t : b \in Byte, t \in Tails}

\* ESC followed by every second byte; ESC [ and ESC O followed by every third.
EscStreams ==
    {<<ESC, b>> \o t : b \in Byte, t \in Tails}
    \cup {<<ESC, 91, b>> \o t : b \in Byte, t \in Tails}
    \cup {<<ESC, 79, b>> \o t : b \in Byte, t \in Tails}

\* ESC [ digits ~ for every digit string of up to MaxDigits digits.
NumStreams ==
    {<<ESC, 91>> \o d \o <<126>> \o t :
        d \in Seqs(48..57, MaxDigits) \ {<<>>}, t \in Tails}

\* Every stream of up to MaxLen elements over a small alphabet:
\* ESC [ O A H 1 3 ~ x CR, and failed reads.
GenAlphabet == {ESC, 91, 79, 65, 72, 49, 51, 126, 120, CR, ReadErr}
GenStreams == Seqs(GenAlphabet, MaxLen)

\* h e l l o CR
Hello == <<104, 101, 108, 108, 111, CR>>

DecodeStreams ==
    LeadStreams \cup EscStreams \cup NumStreams \cup GenStreams \cup {Hello}

\* ------------------------------------------------------ specifications

\* The terminal after the editor's start-up from an interactive shell, both
\* descriptors on one device.
RawStarted ==
    /\ outDev = "A"
    /\ tty0 = [d \in Devices |-> Cooked]
    /\ tty = [tty0 EXCEPT
                 !["A"] = TerminalRawConfigure(TerminalRawConfigure(MakeRaw(@)))]
    /\ oldState = <<Cooked>>
    /\ deferred = <<"term.Restore", "ansiScreenAltOff">>
    /\ restores = 0
    /\ rawEntered = TRUE
    /\ configCalls = <<>>

\* getTerminalSize not called on its own.
ProbeOff ==
    /\ origin = <<>>
    /\ probeTook = <<>>
    /\ probesLeft = 0

GeomOff ==
    /\ sizeQuery = [columns |-> 0, rows |-> 0, err |-> FALSE]
    /\ probeReply = <<>>
    /\ geometry = [columns |-> 0, rows |-> 0, err |-> FALSE]
    /\ probeSent = <<>>
    /\ pcG = "off"

\* The key reporter, started on any of the streams.
InitDecode ==
    /\ stream \in DecodeStreams
    /\ pos = 1
    /\ calls = <<>>
    /\ pc0 = "loop"
    /\ stdout0 = <<>>
    /\ decoderPc = "off"
    /\ keyEvent = ZeroEvent
    /\ keyChannel = <<>>
    /\ chanClosed = FALSE
    /\ mainPc = "off"
    /\ recvOk = TRUE
    /\ terminalColumns = 0
    /\ terminalRows = 0
    /\ cursorIndexX = 0
    /\ cursorIndexY = 0
    /\ frames = 0
    /\ accepted = <<>>
    /\ dropped = {}
    /\ received = <<>>
    /\ cursorMove = <<>>
    /\ cursorBefore = <<0, 0>>
    /\ editorLines = <<>>
    /\ frameBuf = <<>>
    /\ writes = 0
    /\ termSize = <<3, 2>>
    /\ RawStarted
    /\ GeomOff
    /\ ProbeOff

NextDecode == ReportKey

SpecDecode == InitDecode /\ [][NextDecode]_vars

\* What one key press puts on the editor's input: Ctrl-Q, q, l, j, End,
\* PageDown, or a failed read.
KeyChunks ==
    {<<17>>, <<113>>, <<108>>, <<106>>, <<ESC, 91, 70>>, <<ESC, 91, 54, 126>>,
     <<ReadErr>>}

RECURSIVE Flatten(_)
Flatten(cs) == IF cs = <<>> THEN <<>> ELSE Head(cs) \o Flatten(Tail(cs))

KeyStreams == {Flatten(cs) : cs \in Seqs(KeyChunks, MaxKeys)}

\* The editor after start-up: raw mode entered, the goroutine started, main
\* at the top of its loop.
Init ==
    /\ stream \in KeyStreams
    /\ pos = 1
    /\ calls = <<>>
    /\ pc0 = "off"
    /\ stdout0 = <<>>
    /\ decoderPc = "read"
    /\ keyEvent = ZeroEvent
    /\ keyChannel = <<>>
    /\ chanClosed = FALSE
    /\ mainPc = "frame"
    /\ recvOk = TRUE
    /\ terminalColumns = 0
    /\ terminalRows = 0
    /\ cursorIndexX = 0
    /\ cursorIndexY = 0
    /\ frames = 0
    /\ accepted = <<>>
    /\ dropped = {}
    /\ received = <<>>
    /\ cursorMove = <<>>
    /\ cursorBefore = <<0, 0>>
    /\ editorLines = <<>>
    /\ frameBuf = <<>>
    /\ writes = 0
    /\ termSize = <<3, 2>>
    /\ RawStarted
    /\ GeomOff
    /\ ProbeOff

Next == DecoderStep \/ MainStep

Spec == Init /\ [][Next]_vars

\* The Go scheduler runs every goroutine that can take a step.
FairSpec == Spec /\ WF_vars(DecoderStep) /\ WF_vars(MainStep)

\* Input of the editor from start to exit: nothing, Ctrl-Q, l, l Ctrl-Q.
RawStreams == {<<>>, <<17>>, <<108>>, <<108, 17>>}

\* The editor from the first statement of main to the end of the process:
\* stdin on device "A" with either line discipline, stdout on the same device
\* or on a second terminal.
InitRaw ==
    /\ stream \in RawStreams
    /\ pos = 1
    /\ calls = <<>>
    /\ pc0 = "off"
    /\ stdout0 = <<>>
    /\ decoderPc = "off"
    /\ keyEvent = ZeroEvent
    /\ keyChannel = <<>>
    /\ chanClosed = FALSE
    /\ mainPc = "start"
    /\ recvOk = TRUE
    /\ terminalColumns = 0
    /\ terminalRows = 0
    /\ cursorIndexX = 0
    /\ cursorIndexY = 0
    /\ frames = 0
    /\ accepted = <<>>
    /\ dropped = {}
    /\ received = <<>>
    /\ cursorMove = <<>>
    /\ cursorBefore = <<0, 0>>
    /\ editorLines = <<>>
    /\ frameBuf = <<>>
    /\ writes = 0
    /\ termSize = <<3, 2>>
    /\ outDev \in Devices
    /\ tty0 \in [Devices -> TtyStates]
    /\ outDev = "A" => tty0["B"] = Cooked
    /\ tty = tty0
    /\ oldState = <<>>
    /\ deferred = <<>>
    /\ restores = 0
    /\ rawEntered = FALSE
    /\ configCalls = <<>>
    /\ GeomOff
    /\ ProbeOff

NextRaw == MainEnterRaw \/ MainOpen \/ DecoderStep \/ MainStep \/ MainExit

SpecRaw == InitRaw /\ [][NextRaw]_vars

\* The render loop on its own: key events arrive decoded, and the window is
\* resized at any moment.
InitCursor ==
    /\ stream = <<>>
    /\ pos = 1
    /\ calls = <<>>
    /\ pc0 = "off"
    /\ stdout0 = <<>>
    /\ decoderPc = "off"
    /\ keyEvent = ZeroEvent
    /\ keyChannel = <<>>
    /\ chanClosed = FALSE
    /\ mainPc = "frame"
    /\ recvOk = TRUE
    /\ terminalColumns = 0
    /\ terminalRows = 0
    /\ cursorIndexX = 0
    /\ cursorIndexY = 0
    /\ frames = 0
    /\ accepted = <<>>
    /\ dropped = {}
    /\ received = <<>>
    /\ cursorMove = <<>>
    /\ cursorBefore = <<0, 0>>
    /\ editorLines = <<>>
    /\ frameBuf = <<>>
    /\ writes = 0
    /\ termSize \in WindowSizes
    /\ RawStarted
    /\ GeomOff
    /\ ProbeOff

NextCursor == KeyArrives \/ Resize \/ MainFrame \/ MainReceive

SpecCursor == InitCursor /\ [][NextCursor]_vars

\* The attribute bits terminalRawConfigure is tried on: those it names, and
\* ECHO and ICANON.
ConfigBits ==
    {"ISIG", "IEXTEN", "IXON", "ICRNL", "BRKINT", "INPCK", "ISTRIP", "OPOST",
     "CS6", "CS7", "ECHO", "ICANON"}

\* terminalRawConfigure called up to twice on a device with any combination
\* of the attribute bits.
InitConfigure ==
    /\ stream = <<>>
    /\ pos = 1
    /\ calls = <<>>
    /\ pc0 = "off"
    /\ stdout0 = <<>>
    /\ decoderPc = "off"
    /\ keyEvent = ZeroEvent
    /\ keyChannel = <<>>
    /\ chanClosed = FALSE
    /\ mainPc = "configure"
    /\ recvOk = TRUE
    /\ terminalColumns = 0
    /\ terminalRows = 0
    /\ cursorIndexX = 0
    /\ cursorIndexY = 0
    /\ frames = 0
    /\ accepted = <<>>
    /\ dropped = {}
    /\ received = <<>>
    /\ cursorMove = <<>>
    /\ cursorBefore = <<0, 0>>
    /\ editorLines = <<>>
    /\ frameBuf = <<>>
    /\ writes = 0
    /\ termSize = <<3, 2>>
    /\ outDev = "A"
    /\ \E s \in SUBSET ConfigBits :
          tty0 = [d \in Devices |->
                    IF d = "A" THEN [flags |-> s, vmin |-> 4, vtime |-> 2]
                    ELSE Cooked]
    /\ tty = tty0
    /\ oldState = <<>>
    /\ deferred = <<>>
    /\ restores = 0
    /\ rawEntered = FALSE
    /\ configCalls = <<>>
    /\ GeomOff
    /\ ProbeOff

NextConfigure == ConfigureCall

SpecConfigure == InitConfigure /\ [][NextConfigure]_vars

\* Display buffers: empty; "hi"; "hello", "", "abc"; a line of 21 bytes that
\* starts with a two-byte character; five lines a to e.
DrawLines ==
    {<<>>,
     << <<104, 105>> >>,
     << <<104, 101, 108, 108, 111>>, <<>>, <<97, 98, 99>> >>,
     << <<195, 169>> \o Spaces(19) >>,
     << <<97>>, <<98>>, <<99>>, <<100>>, <<101>> >>}

\* Widths around the lengths of the lines and of the welcome text.
DrawColumns == {1, 2, 3, 4, 5, 19, 20, 21, 22, 23, 80}

\* drawRows called once, on any of the display buffers and geometries.
InitDraw ==
    /\ stream = <<>>
    /\ pos = 1
    /\ calls = <<>>
    /\ pc0 = "off"
    /\ stdout0 = <<>>
    /\ decoderPc = "off"
    /\ keyEvent = ZeroEvent
    /\ keyChannel = <<>>
    /\ chanClosed = FALSE
    /\ mainPc = "draw"
    /\ recvOk = TRUE
    /\ terminalColumns \in DrawColumns
    /\ terminalRows \in 1..MaxRows
    /\ cursorIndexX = 0
    /\ cursorIndexY = 0
    /\ frames = 0
    /\ accepted = <<>>
    /\ dropped = {}
    /\ received = <<>>
    /\ cursorMove = <<>>
    /\ cursorBefore = <<0, 0>>
    /\ editorLines \in DrawLines
    /\ frameBuf = <<>>
    /\ writes = 0
    /\ termSize = <<3, 2>>
    /\ RawStarted
    /\ GeomOff
    /\ ProbeOff

NextDraw == DrawPass

SpecDraw == InitDraw /\ [][NextDraw]_vars

\* What term.GetSize may return to getTerminalSize: an error, or a window
\* size with each of the two fields zero or not.
GeomQueries ==
    {[columns |-> 0, rows |-> 0, err |-> TRUE]}
    \cup {[columns |-> c, rows |-> r, err |-> FALSE] : c \in {0, 80}, r \in {0, 24}}

GeomDims == (0..MaxDim) \cup {24, 80}

\* ESC [ 2 4 ; 8 0 R
Report24x80 == <<ESC, 91, 50, 52, 59, 56, 48, 82>>

\* What the probe's read may return: a report of every size; nothing; a
\* keystroke; a report cut before its R; R before [; one field only; a
\* negative row; a keystroke in front of a report; a report and a keystroke.
GeomReplies ==
    {CursorReport(r, c) : r \in GeomDims, c \in GeomDims}
    \cup {<<>>, <<108>>, <<ESC, 91, 50, 52, 59, 56, 48>>, <<82, 91>>,
          <<ESC, 91, 50, 52, 82>>, <<ESC, 91, 45, 49, 59, 56, 48, 82>>,
          <<108>> \o Report24x80, Report24x80 \o <<108>>}

\* getTerminalSize called once, on any query result and any probe reply.
InitGeom ==
    /\ stream = <<>>
    /\ pos = 1
    /\ calls = <<>>
    /\ pc0 = "off"
    /\ stdout0 = <<>>
    /\ decoderPc = "off"
    /\ keyEvent = ZeroEvent
    /\ keyChannel = <<>>
    /\ chanClosed = FALSE
    /\ mainPc = "off"
    /\ recvOk = TRUE
    /\ terminalColumns = 0
    /\ terminalRows = 0
    /\ cursorIndexX = 0
    /\ cursorIndexY = 0
    /\ frames = 0
    /\ accepted = <<>>
    /\ dropped = {}
    /\ received = <<>>
    /\ cursorMove = <<>>
    /\ cursorBefore = <<0, 0>>
    /\ editorLines = <<>>
    /\ frameBuf = <<>>
    /\ writes = 0
    /\ termSize = <<3, 2>>
    /\ RawStarted
    /\ sizeQuery \in GeomQueries
    /\ probeReply \in GeomReplies
    /\ geometry = [columns |-> 0, rows |-> 0, err |-> FALSE]
    /\ probeSent = <<>>
    /\ pcG = "call"
    /\ ProbeOff

NextGeom == ResolveGeometry

SpecGeom == InitGeom /\ [][NextGeom]_vars

\* ------------------------------------------------------ decoder properties

\* The leading byte of call c, and the elements of the stream after it.
Lead(c) == IF c.from <= Len(stream) THEN stream[c.from] ELSE ReadErr
After(c) == SubSeq(stream, c.from + 1, Len(stream))
IsDigits(d) == \A k \in DOMAIN d : d[k] \in 48..57

\* C1: a call whose leading byte b is in 1..26 consumes exactly that byte and
\* returns Enter for b = 13, otherwise the rune 'a'+(b-1) with Ctrl set
\* (b = 10 gives Ctrl+'j', not Enter).
C1_CtrlBytes ==
    \A i \in DOMAIN calls :
        LET c == calls[i]
            b == Lead(c)
        IN  b \in 1..26 =>
                /\ ~c.err
                /\ c.to = c.from + 1
                /\ IF b = 13
                   THEN c.ev.KeyCode = "KeyEnter"
                   ELSE c.ev = [KeyCode |-> "KeyRune", Rune |-> 97 + (b - 1),
                                Ctrl |-> TRUE]

C1_Witness ==
    \E i \in DOMAIN calls :
        /\ Lead(calls[i]) = 10
        /\ calls[i].ev = [KeyCode |-> "KeyRune", Rune |-> 106, Ctrl |-> TRUE]
        /\ calls[i].to = calls[i].from + 1

\* C2: a call whose leading byte b is in 32..126 consumes exactly that byte
\* and returns the rune b with Ctrl clear.
C2_PrintableBytes ==
    \A i \in DOMAIN calls :
        LET c == calls[i]
            b == Lead(c)
        IN  b \in 32..126 =>
                /\ ~c.err
                /\ c.to = c.from + 1
                /\ c.ev = [KeyCode |-> "KeyRune", Rune |-> b, Ctrl |-> FALSE]

C2_Witness ==
    \E i \in DOMAIN calls :
        /\ Lead(calls[i]) = 81
        /\ calls[i].ev = [KeyCode |-> "KeyRune", Rune |-> 81, Ctrl |-> FALSE]
        /\ calls[i].to = calls[i].from + 1

\* C3: ESC '[' x with x in A B C D H F returns ArrowUp, ArrowDown, ArrowRight,
\* ArrowLeft, Home, End; exactly three bytes are consumed and the next call
\* starts at the byte after x.
C3_CsiLetters ==
    \A i \in DOMAIN calls :
        LET c == calls[i]
            a == After(c)
        IN  (Lead(c) = 27 /\ Len(a) >= 2 /\ a[1] = 91
                /\ a[2] \in {65, 66, 67, 68, 72, 70}) =>
                /\ ~c.err
                /\ c.to = c.from + 3
                /\ c.ev.KeyCode =
                     (CASE a[2] = 65 -> "KeyArrowUp"
                        [] a[2] = 66 -> "KeyArrowDown"
                        [] a[2] = 67 -> "KeyArrowRight"
                        [] a[2] = 68 -> "KeyArrowLeft"
                        [] a[2] = 72 -> "KeyHome"
                        [] a[2] = 70 -> "KeyEnd")
                /\ (i + 1 \in DOMAIN calls => calls[i + 1].from = c.from + 3)

C3_Witness ==
    \E i \in DOMAIN calls :
        /\ Lead(calls[i]) = 27
        /\ Len(After(calls[i])) >= 3
        /\ SubSeq(After(calls[i]), 1, 3) = <<91, 68, 120>>
        /\ calls[i].ev.KeyCode = "KeyArrowLeft"
        /\ i + 1 \in DOMAIN calls
        /\ calls[i + 1].ev = [KeyCode |-> "KeyRune", Rune |-> 120, Ctrl |-> FALSE]

\* C4: ESC '[' digits '~' returns Home for "1" or "7", End for "4" or "8",
\* Delete for "3", PageUp for "5", PageDown for "6", and Escape for every
\* other digit string.
C4_NumericKeys ==
    \A i \in DOMAIN calls :
        LET c == calls[i]
            a == After(c)
        IN  \A k \in 1..(Len(a) - 2) :
                LET d == SubSeq(a, 2, k + 1)
                IN  (Lead(c) = 27 /\ a[1] = 91 /\ IsDigits(d) /\ a[k + 2] = 126) =>
                        /\ ~c.err
                        /\ c.to = c.from + k + 3
                        /\ c.ev.KeyCode =
                             (IF d \in {<<49>>, <<55>>} THEN "KeyHome"
                              ELSE IF d \in {<<52>>, <<56>>} THEN "KeyEnd"
                              ELSE IF d = <<51>> THEN "KeyDelete"
                              ELSE IF d = <<53>> THEN "KeyPageUp"
                              ELSE IF d = <<54>> THEN "KeyPageDown"
                              ELSE "KeyEsc")

C4_Witness ==
    /\ \E i \in DOMAIN calls :
        /\ Lead(calls[i]) = 27
        /\ Len(After(calls[i])) >= 3
        /\ SubSeq(After(calls[i]), 1, 3) = <<91, 55, 126>>
        /\ calls[i].ev.KeyCode = "KeyHome"
    /\ pc0 = "done"

\* The stream ends inside the escape sequence that call c starts: right after
\* ESC, after ESC '[', after ESC 'O', or after ESC '[' and one or more digits.
EndsInEscape(c) ==
    LET a == After(c)
    IN  /\ Lead(c) = 27
        /\ \/ a = <<>>
           \/ a = <<91>>
           \/ a = <<79>>
           \/ Len(a) >= 2 /\ a[1] = 91 /\ IsDigits(SubSeq(a, 2, Len(a)))

\* C5: when the stream ends inside an escape sequence the call returns an
\* Escape event and no error, having consumed the rest of the stream; the
\* following call reports the end of stream, and there is one.
C5_EscapeAtStreamEnd ==
    \A i \in DOMAIN calls :
        LET c == calls[i]
        IN  EndsInEscape(c) =>
                /\ ~c.err
                /\ c.ev.KeyCode = "KeyEsc"
                /\ c.to = Len(stream) + 1
                /\ (i + 1 \in DOMAIN calls =>
                        /\ calls[i + 1].err
                        /\ calls[i + 1].to = calls[i + 1].from)
                /\ (pc0 = "done" => i + 1 \in DOMAIN calls)

C5_Witness ==
    /\ pc0 = "done"
    /\ \E i \in DOMAIN calls :
        /\ EndsInEscape(calls[i])
        /\ Len(After(calls[i])) >= 2
        /\ calls[i].ev.KeyCode = "KeyEsc"
        /\ i + 1 \in DOMAIN calls
        /\ calls[i + 1].err

\* A run of n printable bytes at the head of the stream, followed by CR.
PrintableRun(n) ==
    /\ n + 1 <= Len(stream)
    /\ \A k \in 1..n : stream[k] \in 32..126
    /\ stream[n + 1] = 13

\* C6: a run of printable bytes followed by CR is decoded as one rune event
\* per byte, in order, and then Enter; for h e l l o CR these are exactly the
\* six events decoded, the seventh call reporting the end of the stream.
C6_RunThenEnter ==
    /\ \A n \in 0..Len(stream) :
        PrintableRun(n) =>
            /\ \A k \in 1..n :
                k \in DOMAIN calls =>
                    /\ calls[k].ev = [KeyCode |-> "KeyRune", Rune |-> stream[k],
                                      Ctrl |-> FALSE]
                    /\ ~calls[k].err
            /\ (n + 1 \in DOMAIN calls =>
                    /\ calls[n + 1].ev.KeyCode = "KeyEnter"
                    /\ ~calls[n + 1].err
                    /\ calls[n + 1].from = n + 1)
    /\ (stream = Hello /\ pc0 = "done") =>
            /\ Len(calls) = 7
            /\ calls[7].err
            /\ stdout0 = <<<<"Rune: ", 104>>, <<"Rune: ", 101>>, <<"Rune: ", 108>>,
                           <<"Rune: ", 108>>, <<"Rune: ", 111>>, <<"Enter">>>>

C6_Witness ==
    /\ stream = Hello
    /\ pc0 = "done"
    /\ Len(stdout0) = 6
    /\ stdout0[6] = <<"Enter">>

\* C19: in a call on ESC '[' digit ..., every element consumed after the
\* first digit is a digit or the terminating '~' (or a failed read): a byte
\* that is neither is not absorbed into the sequence.
C19_OnlyDigitsAbsorbed ==
    \A i \in DOMAIN calls :
        LET c == calls[i]
            a == After(c)
        IN  (Lead(c) = 27 /\ Len(a) >= 2 /\ a[1] = 91 /\ a[2] \in 48..57) =>
                \A k \in (c.from + 3)..(c.to - 1) :
                    stream[k] \in (48..57) \cup {126, ReadErr}

\* C20: the calls consume the stream in consecutive ranges, so each element
\* is consumed by exactly one call; and a call on ESC followed by a byte
\* other than '[' or 'O' returns Escape, consumes both bytes, and the next
\* call starts after the second.
C20_NoPushBack ==
    \A i \in DOMAIN calls :
        LET c == calls[i]
            a == After(c)
        IN  /\ c.from = IF i = 1 THEN 1 ELSE calls[i - 1].to
            /\ c.from <= c.to
            /\ c.to <= Len(stream) + 1
            /\ (Lead(c) = 27 /\ a # <<>> /\ a[1] \in Byte \ {91, 79}) =>
                  /\ ~c.err
                  /\ c.ev = [ZeroEvent EXCEPT !.KeyCode = "KeyEsc"]
                  /\ c.to = c.from + 2
                  /\ (i + 1) \in DOMAIN calls => calls[i + 1].from = c.from + 2

C20_Witness ==
    \E i \in DOMAIN calls :
        /\ Lead(calls[i]) = 27
        /\ After(calls[i]) # <<>>
        /\ After(calls[i])[1] = 120
        /\ calls[i].ev.KeyCode = "KeyEsc"
        /\ (i + 1) \in DOMAIN calls
        /\ calls[i + 1].from = calls[i].from + 2
        /\ calls[i + 1].ev.Rune = 120

\* C21: ESC 'O' x returns Home for x = 'H', End for x = 'F' and Escape for
\* every other x; ESC '[' x with x neither one of A B C D H F nor a digit
\* returns Escape; each of these calls consumes exactly three bytes.
C21_ThreeByteSequences ==
    \A i \in DOMAIN calls :
        LET c == calls[i]
            a == After(c)
        IN  (Lead(c) = 27 /\ Len(a) >= 2 /\ a[2] \in Byte) =>
                /\ a[1] = 79 =>
                      /\ ~c.err
                      /\ c.to = c.from + 3
                      /\ c.ev = [ZeroEvent EXCEPT !.KeyCode =
                                    IF a[2] = 72 THEN "KeyHome"
                                    ELSE IF a[2] = 70 THEN "KeyEnd"
                                    ELSE "KeyEsc"]
                /\ (a[1] = 91 /\ a[2] \notin {65, 66, 67, 68, 72, 70} \cup (48..57)) =>
                      /\ ~c.err
                      /\ c.to = c.from + 3
                      /\ c.ev = [ZeroEvent EXCEPT !.KeyCode = "KeyEsc"]

C21_Witness ==
    \E i \in DOMAIN calls :
        /\ Lead(calls[i]) = 27
        /\ Len(After(calls[i])) >= 3
        /\ SubSeq(After(calls[i]), 1, 2) = <<79, 65>>
        /\ calls[i].ev.KeyCode = "KeyEsc"
        /\ calls[i].to = calls[i].from + 3
        /\ (i + 1) \in DOMAIN calls
        /\ calls[i + 1].from = calls[i].from + 3

\* The leading bytes that are neither control bytes 1..26, nor ESC, nor
\* printable: 0, 28..31 and 127..255.
OtherBytes == {0} \cup (28..31) \cup (127..255)

\* C22: every call returns an event whose kind is one of the enumeration,
\* with a rune only on a rune or Enter event; a leading byte in 0, 28..31, 127..255
\* gives Unknown with Ctrl clear and consumes that one byte; and a call
\* returns an error exactly when the read of its leading byte fails.
C22_TotalDecoder ==
    \A i \in DOMAIN calls :
        LET c == calls[i]
            b == Lead(c)
        IN  /\ c.ev.KeyCode \in KeyCodes
            /\ c.ev.Rune # 0 => c.ev.KeyCode \in {"KeyRune", "KeyEnter"}
            /\ c.err <=> b = ReadErr
            /\ c.err => c.ev = ZeroEvent
            /\ b \in OtherBytes =>
                  /\ c.ev = [KeyCode |-> "KeyUnknown", Rune |-> 0, Ctrl |-> FALSE]
                  /\ c.to = c.from + 1

C22_Witness ==
    /\ \E i \in DOMAIN calls :
          /\ Lead(calls[i]) = 127
          /\ calls[i].ev.KeyCode = "KeyUnknown"
          /\ ~calls[i].err
          /\ calls[i].to = calls[i].from + 1
    /\ \E i \in DOMAIN calls :
          /\ Lead(calls[i]) = ReadErr
          /\ calls[i].err

\* ------------------------------------------------------- editor properties

Last(s) == s[Len(s)]
CtrlQ == [KeyCode |-> "KeyRune", Rune |-> 113, Ctrl |-> TRUE]

\* C7: when the render loop receives the event Ctrl+'q' it ends in that
\* iteration: the step that receives it leaves the loop without moving the
\* cursor, and after the loop has returned no frame is resolved or painted
\* and the cursor stays where it is.
C7_QuitEndsLoop ==
    [][/\ (received' # received /\ Last(received') = CtrlQ) =>
            /\ mainPc' = "returned"
            /\ cursorIndexX' = cursorIndexX
            /\ cursorIndexY' = cursorIndexY
            /\ frames' = frames
       /\ mainPc = "returned" =>
            /\ mainPc' = "returned"
            /\ frames' = frames
            /\ <<terminalColumns, terminalRows>>' = <<terminalColumns, terminalRows>>
            /\ cursorIndexX' = cursorIndexX
            /\ cursorIndexY' = cursorIndexY]_vars

C7_Witness ==
    /\ mainPc = "returned"
    /\ Len(received) >= 2
    /\ Last(received) = CtrlQ
    /\ cursorIndexX > 0
    /\ frames = Len(received)

\* The handoff in every state: at most one event in the channel, the
\* goroutine's select always able to run, and the events taken by the
\* channel are decoded events in decoding order, each once, of which main has
\* received the first ones and the channel holds the last.
HandoffInv ==
    /\ Len(keyChannel) <= 1
    /\ (Running /\ decoderPc = "send") => ENABLED DecoderSelect
    /\ \A k \in DOMAIN accepted : accepted[k] \in DOMAIN calls /\ ~calls[accepted[k]].err
    /\ \A k \in 1..(Len(accepted) - 1) : accepted[k] < accepted[k + 1]
    /\ Len(accepted) = Len(received) + Len(keyChannel)
    /\ \A k \in DOMAIN received : received[k] = calls[accepted[k]].ev
    /\ keyChannel # <<>> => keyChannel[1] = calls[Last(accepted)].ev
    /\ \A d \in dropped : \A k \in DOMAIN accepted : accepted[k] # d

\* C8: the channel never holds more than one event, the decoder's send never
\* blocks, and a select that finds the slot occupied drops the new event and
\* keeps the one in the slot, so what main receives is a subsequence of the
\* decoded events, in order and without duplicates.
C8_Handoff ==
    /\ []HandoffInv
    /\ [][(decoderPc = "send" /\ decoderPc' # "send" /\ Len(keyChannel) = 1) =>
            /\ keyChannel' = keyChannel
            /\ accepted' = accepted
            /\ dropped' = dropped \cup {Len(calls)}]_vars

C8_Witness ==
    /\ Len(received) >= 2
    /\ \E d \in dropped : accepted[1] < d /\ d < accepted[2]
    /\ received[1] # calls[accepted[2]].ev

\* C9: once a read failure or the end of the stream has made the decoder
\* close the channel, the render loop eventually returns normally.
C9_ClosureEndsLoop ==
    [](chanClosed => <>(decoderPc = "done" /\ mainPc = "returned"))

\* C10: the render loop ends only by the channel being found closed or by
\* Ctrl-Q being received.
C10_OnlyCloseOrQuit ==
    mainPc \in {"returned", "fatal"} =>
        \/ ~recvOk
        \/ received # <<>> /\ Last(received) = CtrlQ

\* ---------------------------------------------------- raw-mode properties

\* The process has ended: main returned or panicked and its deferred calls
\* have run, or log.Fatalf called os.Exit.
Exited == mainPc \in {"exited", "fatal"}

\* C11: once raw mode has been entered, every way the process ends runs the
\* restore exactly once and leaves the input device with the attributes that
\* were saved at entry.
C11_RestoreOnEveryExit ==
    (rawEntered /\ Exited) =>
        /\ restores = 1
        /\ tty["A"] = oldState[1]

\* C12: raw-mode entry followed by the restore leaves the attributes of
\* every device the entry changed, that of the input descriptor and that of
\* the output descriptor, as they were before the entry.
C12_RoundTrip ==
    restores >= 1 => \A d \in Devices : tty[d] = tty0[d]

\* ----------------------------------------------------- geometry properties

\* term.GetSize gave no usable size, so getTerminalSize goes on to the probe.
QueryFails(q) == q.err \/ q.columns <= 0 \/ q.rows <= 0

\* C13: getTerminalSize returns strictly positive columns and rows for every
\* query result and probe reply, and when it signals that neither gave a
\* size the geometry is the default of 80 columns and 25 rows.
C13_GeometryNeverFails ==
    pcG = "done" =>
        /\ geometry.columns > 0
        /\ geometry.rows > 0
        /\ geometry.err => (geometry.columns = 80 /\ geometry.rows = 25)

\* C14: when the direct query gives no size, a probe reply ESC [ r ; c R
\* with r > 0 and c > 0 yields columns = c and rows = r; ESC[24;80R yields
\* 80 columns and 24 rows.
C14_ProbeReplyParsed ==
    (pcG = "done" /\ QueryFails(sizeQuery)) =>
        /\ \A r \in GeomDims \ {0}, c \in GeomDims \ {0} :
              probeReply = CursorReport(r, c) =>
                  geometry = [columns |-> c, rows |-> r, err |-> FALSE]
        /\ probeReply = Report24x80 =>
              geometry = [columns |-> 80, rows |-> 24, err |-> FALSE]

C14_Witness ==
    /\ pcG = "done"
    /\ sizeQuery.err
    /\ probeReply = Report24x80
    /\ geometry.columns = 80
    /\ geometry.rows = 24

\* The replies that carry a report ESC [ r ; c R with r > 0 and c > 0.
GoodReplies ==
    {CursorReport(r, c) : r \in GeomDims \ {0}, c \in GeomDims \ {0}}
    \cup {<<108>> \o Report24x80, Report24x80 \o <<108>>}

\* C23: the result of term.GetSize is returned, and nothing is printed, if
\* and only if it came without error and with both fields positive; in every
\* other case the probe is run, and the reply gives the geometry exactly
\* when it carries a report with both values positive.
C23_QueryThenProbe ==
    pcG = "done" =>
        /\ probeSent = <<>> <=> ~QueryFails(sizeQuery)
        /\ ~QueryFails(sizeQuery) =>
              geometry = [columns |-> sizeQuery.columns, rows |-> sizeQuery.rows,
                          err |-> FALSE]
        /\ QueryFails(sizeQuery) =>
              /\ Len(probeSent) = 4
              /\ probeSent[3] = "ansiCursorPositionRequest"
              /\ ~geometry.err <=> probeReply \in GoodReplies
              /\ ~geometry.err =>
                    \E r \in GeomDims \ {0}, c \in GeomDims \ {0} :
                        /\ geometry.columns = c /\ geometry.rows = r
                        /\ \E i \in 0..1 :
                              SubSeq(probeReply, 1 + i, Len(CursorReport(r, c)) + i)
                                  = CursorReport(r, c)

C23_Witness ==
    /\ pcG = "done"
    /\ sizeQuery = [columns |-> 80, rows |-> 0, err |-> FALSE]
    /\ probeReply = CursorReport(5, 7)
    /\ Len(probeSent) = 4
    /\ geometry = [columns |-> 7, rows |-> 5, err |-> FALSE]

\* ------------------------------------------------------- cursor properties

\* The cursor lies in the geometry of the current frame.
CursorInRange ==
    /\ 0 <= cursorIndexX /\ cursorIndexX <= terminalColumns - 1
    /\ 0 <= cursorIndexY /\ cursorIndexY <= terminalRows - 1

\* main has just applied a key event to the cursor.
JustMoved == mainPc \in {"frame", "returned"} /\ received # <<>>

\* C15: whatever the key events and the window sizes from frame to frame,
\* after every cursor update and at every repaint the cursor lies in the
\* geometry of the current frame, and the cursor move written in the frame
\* is that of the cursor's position.
C15_CursorInBounds ==
    /\ JustMoved => CursorInRange
    /\ mainPc = "select" =>
          /\ CursorInRange
          /\ cursorMove = <<cursorIndexY + 1, cursorIndexX + 1>>

\* C16: an ArrowRight event received while the cursor is in the last column
\* leaves the column there and the row unchanged.
C16_ArrowRightAtEdge ==
    (/\ JustMoved
     /\ Last(received).KeyCode = "KeyArrowRight"
     /\ terminalColumns > 0
     /\ cursorBefore[1] = terminalColumns - 1) =>
        /\ cursorIndexX = terminalColumns - 1
        /\ cursorIndexY = cursorBefore[2]

C16_Witness ==
    /\ JustMoved
    /\ Last(received).KeyCode = "KeyArrowRight"
    /\ terminalColumns > 1
    /\ cursorBefore[1] = terminalColumns - 1
    /\ cursorIndexX = terminalColumns - 1

ArrowKeyCodes == {"KeyArrowLeft", "KeyArrowRight", "KeyArrowUp", "KeyArrowDown"}

\* C17 as stated: each arrow key event moves the cursor by one in its
\* direction unless the cursor is at that edge.
C17_ArrowsMove ==
    JustMoved =>
        LET k == Last(received).KeyCode
            x0 == cursorBefore[1]
            y0 == cursorBefore[2]
        IN  /\ (k = "KeyArrowLeft" /\ x0 > 0) => cursorIndexX = x0 - 1
            /\ (k = "KeyArrowRight" /\ x0 < terminalColumns - 1) => cursorIndexX = x0 + 1
            /\ (k = "KeyArrowUp" /\ y0 > 0) => cursorIndexY = y0 - 1
            /\ (k = "KeyArrowDown" /\ y0 < terminalRows - 1) => cursorIndexY = y0 + 1

\* C17: the directional keys are the runes h, l, k and j: 'h' decrements the
\* column when column > 0, 'l' increments it when column < columns-1, 'k'
\* decrements the row when row > 0, 'j' increments it when row < rows-1,
\* each leaving the other coordinate; an arrow key event leaves the cursor
\* where it is.
C17_RunesMove ==
    JustMoved =>
        LET ev == Last(received)
            x0 == cursorBefore[1]
            y0 == cursorBefore[2]
        IN  /\ ev.Rune = 104 =>
                  /\ cursorIndexX = IF x0 > 0 THEN x0 - 1 ELSE x0
                  /\ cursorIndexY = y0
            /\ ev.Rune = 108 =>
                  /\ cursorIndexX = IF x0 < terminalColumns - 1 THEN x0 + 1 ELSE x0
                  /\ cursorIndexY = y0
            /\ ev.Rune = 107 =>
                  /\ cursorIndexY = IF y0 > 0 THEN y0 - 1 ELSE y0
                  /\ cursorIndexX = x0
            /\ ev.Rune = 106 =>
                  /\ cursorIndexY = IF y0 < terminalRows - 1 THEN y0 + 1 ELSE y0
                  /\ cursorIndexX = x0
            /\ ev.KeyCode \in ArrowKeyCodes =>
                  /\ cursorIndexX = x0
                  /\ cursorIndexY = y0

C17_Witness ==
    /\ JustMoved
    /\ Last(received).Rune = 108
    /\ cursorBefore[1] < terminalColumns - 1
    /\ cursorIndexX = cursorBefore[1] + 1

\* C18: with a positive geometry, Home sets the column to 0, End to
\* columns-1, PageUp sets the row to 0, PageDown to rows-1, and each leaves
\* the other coordinate unchanged.
C18_AbsoluteJumps ==
    (JustMoved /\ terminalColumns > 0 /\ terminalRows > 0) =>
        LET k == Last(received).KeyCode
            x0 == cursorBefore[1]
            y0 == cursorBefore[2]
        IN  /\ k = "KeyHome" => (cursorIndexX = 0 /\ cursorIndexY = y0)
            /\ k = "KeyEnd" =>
                  (cursorIndexX = terminalColumns - 1 /\ cursorIndexY = y0)
            /\ k = "KeyPageUp" => (cursorIndexY = 0 /\ cursorIndexX = x0)
            /\ k = "KeyPageDown" =>
                  (cursorIndexY = terminalRows - 1 /\ cursorIndexX = x0)

C18_Witness ==
    /\ JustMoved
    /\ Last(received).KeyCode = "KeyPageDown"
    /\ cursorBefore[1] > 0
    /\ cursorBefore[2] < terminalRows - 1
    /\ cursorIndexY = terminalRows - 1
    /\ cursorIndexX = cursorBefore[1]

\* ------------------------------------------------------- frame properties

\* Number of items of b that are the code named name.
CountCode(b, name) == Cardinality({k \in DOMAIN b : b[k].code = name})

RowStarts(b) == {k \in DOMAIN b : b[k].code = "ansiLineClear"}
RowStart(b, i) ==
    CHOOSE k \in RowStarts(b) : Cardinality({j \in RowStarts(b) : j < k}) = i

\* What b holds for row i after its line-clear code, without the line break
\* that separates it from the next row.
RowBody(b, i, rows) ==
    LET first == RowStart(b, i) + 1
        last == IF i = rows - 1 THEN Len(b) ELSE RowStart(b, i + 1) - 1
    IN  IF i < rows - 1 /\ last >= first /\ b[last] = CrLf
        THEN SubSeq(b, first, last - 1)
        ELSE SubSeq(b, first, last)

\* t is line cut to at most columns bytes.
IsTruncated(t, line, columns) ==
    /\ Len(t) = IF Len(line) <= columns THEN Len(line) ELSE columns
    /\ \A k \in DOMAIN t : t[k] = line[k]

C26_RawConfigure ==
    LET before == tty0["A"]
        now == tty["A"]
        applied == \E k \in DOMAIN configCalls : configCalls[k].set = "ok"
    IN  /\ applied =>
              /\ \A b \in {"ISIG", "IEXTEN", "IXON", "ICRNL", "BRKINT", "INPCK",
                            "ISTRIP", "OPOST"} : b \notin now.flags
              /\ "CS6" \in now.flags /\ "CS7" \in now.flags
              /\ \A b \in {"ECHO", "ICANON"} : b \in now.flags <=> b \in before.flags
              /\ now.flags \subseteq before.flags \cup {"CS6", "CS7"}
              /\ now.vmin = before.vmin /\ now.vtime = before.vtime
        /\ ~applied => now = before
        /\ tty["B"] = tty0["B"]
        /\ \A k \in DOMAIN configCalls :
              LET c == configCalls[k]
              IN  /\ ~c.get => (c.set = "none" /\ c.err)
                  /\ c.get => (c.set # "none" /\ (c.err <=> c.set = "failed"))

C26_Witness ==
    /\ Len(configCalls) = 2
    /\ configCalls[1].set = "ok"
    /\ configCalls[2].set = "ok"
    /\ tty0["A"].flags = {"ISIG", "ICRNL", "OPOST", "ECHO", "ICANON", "CS7"}
    /\ tty["A"].flags = {"ECHO", "ICANON", "CS6", "CS7"}

\* ------------------------------------------- the probe and the decoder

\* How many probes the terminal answers in one run.
MaxProbes == 1

\* Input of the editor while a probe runs: nothing, Ctrl-Q, l, l Ctrl-Q.
ProbeStreams == RawStreams

\* The editor after start-up on a terminal that answers the cursor-position
\* request: the goroutine is blocked in its read of stdin, main is at the top
\* of its loop, every byte of the input is a keystroke.
InitProbe ==
    /\ stream \in ProbeStreams
    /\ pos = 1
    /\ calls = <<>>
    /\ pc0 = "off"
    /\ stdout0 = <<>>
    /\ decoderPc = "read"
    /\ keyEvent = ZeroEvent
    /\ keyChannel = <<>>
    /\ chanClosed = FALSE
    /\ mainPc = "frame"
    /\ recvOk = TRUE
    /\ terminalColumns = 0
    /\ terminalRows = 0
    /\ cursorIndexX = 0
    /\ cursorIndexY = 0
    /\ frames = 0
    /\ accepted = <<>>
    /\ dropped = {}
    /\ received = <<>>
    /\ cursorMove = <<>>
    /\ cursorBefore = <<0, 0>>
    /\ editorLines = <<>>
    /\ frameBuf = <<>>
    /\ writes = 0
    /\ termSize = <<3, 2>>
    /\ RawStarted
    /\ GeomOff
    /\ origin = [i \in 1..Len(stream) |-> "key"]
    /\ probeTook = <<>>
    /\ probesLeft = MaxProbes

NextProbe == DecoderStep \/ MainStep \/ MainProbeRequest

SpecProbe == InitProbe /\ [][NextProbe]_vars

\* C27: the input byte stream is consumed by the decoder task alone: no byte
\* of the terminal's cursor-position reply is among the bytes a call of the
\* decoder consumed, and the probe's read on main takes no keystroke byte.
C27_InputNotShared ==
    /\ \A k \in DOMAIN calls :
           \A i \in calls[k].from..(calls[k].to - 1) :
               i \in DOMAIN origin => origin[i] = "key"
    /\ \A i \in DOMAIN probeTook : probeTook[i] = "reply"

====
